---- MODULE Spec2Model ----
(***************************************************************************)
(* Sector addressing and bounds-checked record location of ext2-rs:        *)
(* src/sector.rs (Address and its arithmetic), src/volume/size.rs (Size),  *)
(* src/sys/block_group.rs and src/sys/inode.rs (the record locators).      *)
(*                                                                         *)
(* Machine integers keep their Rust width.  A value of 2^32 or 2^64 does   *)
(* not fit the integers of the model checker, so every machine integer is  *)
(* a little-endian sequence of 16-bit limbs: 2 limbs for u32 and i32,      *)
(* 4 limbs for u64, i64 and usize (a 64-bit target), two's complement.     *)
(* WideLimbs limbs hold the exact mathematical values the properties       *)
(* compare the machine results with.                                       *)
(***************************************************************************)
EXTENDS Integers, Sequences, FiniteSets, TLC

(***************************************************************************)
(* Limb arithmetic: the machine operations of the source, on limbs.        *)
(***************************************************************************)
\* Width in bits of u32 / i32 (Address.sector, Address.offset, the offset
\* parameter of new), of i64 / u64 (the linear index) and of usize (a 64-bit
\* target).
U32Bits == 32

I64Bits == 64

UsizeBits == 64

\* A limb is half a u32.
LimbBits == U32Bits \div 2

Base == 2^LimbBits

W32 == U32Bits \div LimbBits

W64 == I64Bits \div LimbBits

WUsize == UsizeBits \div LimbBits

\* Limbs of the exact (never wrapping) values the properties compute with:
\* twice an i64.
WideLimbs == 2 * W64

\* The n-limb two's complement representation of a small integer v.
Lit(v, n) ==
  [i \in 1..n |-> IF i = 1 THEN v % Base
                  ELSE IF i = 2 THEN (v \div Base) % Base
                  ELSE IF v < 0 THEN Base - 1 ELSE 0]

IsNeg(x) == x[Len(x)] >= Base \div 2

\* `x as uN` / `x as iN` from an unsigned source: truncate or zero-extend.
CastU(x, n) == [i \in 1..n |-> IF i <= Len(x) THEN x[i] ELSE 0]

\* `x as uN` / `x as iN` from a signed source: truncate or sign-extend.
CastS(x, n) ==
  [i \in 1..n |-> IF i <= Len(x) THEN x[i]
                  ELSE IF IsNeg(x) THEN Base - 1 ELSE 0]

RECURSIVE AddLimbs(_, _, _, _)
AddLimbs(x, y, i, c) ==
  IF i > Len(x) THEN <<>>
  ELSE LET s == x[i] + y[i] + c
       IN  <<s % Base>> \o AddLimbs(x, y, i + 1, s \div Base)

Not(x) == [i \in 1..Len(x) |-> Base - 1 - x[i]]

\* Wrapping addition and subtraction at the width of the operands.
WrappingAdd(x, y) == AddLimbs(x, y, 1, 0)

WrappingSub(x, y) == AddLimbs(x, Not(y), 1, 1)

LtU(x, y) ==
  \E i \in 1..Len(x) :
    /\ x[i] < y[i]
    /\ \A j \in (i + 1)..Len(x) : x[j] = y[j]

LeU(x, y) == x = y \/ LtU(x, y)

LtS(x, y) == IF IsNeg(x) # IsNeg(y) THEN IsNeg(x) ELSE LtU(x, y)

\* Unsigned and signed overflow of x + y and x - y at the operands' width.
AddOverflowsU(x, y) == LtU(WrappingAdd(x, y), x)

SubOverflowsU(x, y) == LtU(x, y)

AddOverflowsS(x, y) ==
  /\ IsNeg(x) = IsNeg(y)
  /\ IsNeg(WrappingAdd(x, y)) # IsNeg(x)

SubOverflowsS(x, y) ==
  /\ IsNeg(x) # IsNeg(y)
  /\ IsNeg(WrappingSub(x, y)) # IsNeg(x)

\* x << k, for 0 <= k < width: the bits shifted out are lost.
Shl(x, k) ==
  LET q == k \div LimbBits
      r == k % LimbBits
      limb(j) == IF j >= 1 /\ j <= Len(x) THEN x[j] ELSE 0
  IN  [i \in 1..Len(x) |->
         (limb(i - q) % 2^(LimbBits - r)) * 2^r
         + limb(i - q - 1) \div 2^(LimbBits - r)]

\* x >> k, for 0 <= k < width, filling with `fill` limbs from the top.
ShrFill(x, k, fill) ==
  LET q == k \div LimbBits
      r == k % LimbBits
      limb(j) == IF j <= Len(x) THEN x[j] ELSE fill
  IN  [i \in 1..Len(x) |->
         limb(i + q) \div 2^r + (limb(i + q + 1) % 2^r) * 2^(LimbBits - r)]

\* >> on an unsigned integer (logical) and on a signed one (arithmetic).
ShrU(x, k) == ShrFill(x, k, 0)

ShrS(x, k) == ShrFill(x, k, IF IsNeg(x) THEN Base - 1 ELSE 0)

\* x & m for a mask m = 2^b - 1 given as a small integer, b <= LimbBits.
AndMask(x, m) == [i \in 1..Len(x) |-> IF i = 1 THEN x[1] % (m + 1) ELSE 0]

\* x * m for a small integer m, wrapping at the width of x, and whether the
\* exact product overflows that width.
RECURSIVE MulLimbs(_, _, _, _)
MulLimbs(x, m, i, c) ==
  IF i > Len(x) THEN <<c>>
  ELSE LET s == x[i] * m + c
       IN  <<s % Base>> \o MulLimbs(x, m, i + 1, s \div Base)

WrappingMul(x, m) == SubSeq(MulLimbs(x, m, 1, 0), 1, Len(x))

MulOverflowsU(x, m) == MulLimbs(x, m, 1, 0)[Len(x) + 1] # 0

\* u32::MAX
U32Max == [i \in 1..W32 |-> Base - 1]

(***************************************************************************)
(* The build: with overflow checks (a debug build) an overflowing +, - or  *)
(* *, and a shift by the width or more, panics; without them (a release    *)
(* build) the arithmetic wraps and the shift amount is masked.             *)
(***************************************************************************)
VARIABLES overflow_checks, S, cur, call, ret, steps

vars == <<overflow_checks, S, cur, call, ret, steps>>

\* A panic (an assert!, an overflow check, unimplemented!): the call returns
\* no value.
Panic == [panic |-> TRUE]

IsPanic(r) == "panic" \in DOMAIN r

(***************************************************************************)
(* src/sector.rs: SectorSize.                                              *)
(***************************************************************************)
Size512_LOG_SIZE == 9

Size1024_LOG_SIZE == 10

Size2048_LOG_SIZE == 11

Size4096_LOG_SIZE == 12

SectorSize == {"Size512", "Size1024", "Size2048", "Size4096"}

LOG_SIZE(T) ==
  CASE T = "Size512" -> Size512_LOG_SIZE
    [] T = "Size1024" -> Size1024_LOG_SIZE
    [] T = "Size2048" -> Size2048_LOG_SIZE
    [] T = "Size4096" -> Size4096_LOG_SIZE

SIZE(T) == 2^LOG_SIZE(T)

OFFSET_MASK(T) == SIZE(T) - 1

(***************************************************************************)
(* src/sector.rs: Address.                                                 *)
(***************************************************************************)
Address(sector, offset) == [sector |-> sector, offset |-> offset]

\* #[derive(Default)]
AddressDefault == Address(Lit(0, W32), Lit(0, W32))

\* new_unchecked without its assert!.
new_unchecked_unasserted(T, sector, offset) == Address(sector, offset)

new_unchecked(T, sector, offset) ==
  IF LtU(CastU(offset, WUsize), Lit(SIZE(T), WUsize))
  THEN Address(sector, offset)
  ELSE Panic

\* sector: u32, offset: i32.  The i64 sum cannot overflow: the shifted
\* sector is below 2^44.
new(T, sector, offset) ==
  LET index == WrappingAdd(Shl(CastU(sector, W64), LOG_SIZE(T)),
                           CastS(offset, W64))
      sector2 == CastS(ShrS(index, LOG_SIZE(T)), W32)
      offset2 == AndMask(CastS(index, W32), OFFSET_MASK(T))
  IN  new_unchecked(T, sector2, offset2)

\* with_block_size shifting the block by the sector's LOG_SIZE, as new does.
with_block_size_as_sector(T, block, offset, log_block_size) ==
  new(T, block, offset)

\* block: u32, offset: i32, log_block_size: u32 (a small integer here).
with_block_size(T, block, offset, log_block_size) ==
  IF overflow_checks /\ log_block_size >= I64Bits THEN Panic
  ELSE
    LET shifted == Shl(CastU(block, W64), log_block_size % I64Bits)
        off64 == CastS(offset, W64)
    IN  IF overflow_checks /\ AddOverflowsS(shifted, off64) THEN Panic
        ELSE
          LET index == WrappingAdd(shifted, off64)
              sector == CastS(ShrS(index, LOG_SIZE(T)), W32)
              offset2 == AndMask(CastS(index, W32), OFFSET_MASK(T))
          IN  new_unchecked(T, sector, offset2)

\* The u64 sum cannot overflow: the shifted sector is below 2^44.
into_index(T, self) ==
  WrappingAdd(Shl(CastU(self.sector, W64), LOG_SIZE(T)),
              CastU(self.offset, W64))

sector_size(T, self) == SIZE(T)

\* From<u64> keeping the sector only.
from_u64_sector_only(T, idx) ==
  new(T, CastU(ShrU(idx, LOG_SIZE(T)), W32), Lit(0, W32))

\* impl From<u64> for Address<S>
from_u64(T, idx) ==
  LET sector == ShrU(idx, LOG_SIZE(T))
      offset == AndMask(idx, OFFSET_MASK(T))
  IN  new(T, CastU(sector, W32), CastU(offset, W32))

\* impl From<usize> for Address<S>
from_usize(T, idx) ==
  LET sector == ShrU(idx, LOG_SIZE(T))
      offset == AndMask(idx, OFFSET_MASK(T))
  IN  new(T, CastU(sector, W32), CastU(offset, W32))

\* impl Add for Address<S>
add(T, self, rhs) ==
  IF overflow_checks /\ (AddOverflowsU(self.sector, rhs.sector)
                          \/ AddOverflowsU(self.offset, rhs.offset))
  THEN Panic
  ELSE new(T, WrappingAdd(self.sector, rhs.sector),
              WrappingAdd(self.offset, rhs.offset))

\* Sub with the offsets subtracted unsigned and saturating at 0.
sub_saturating(T, self, rhs) ==
  IF overflow_checks /\ SubOverflowsU(self.sector, rhs.sector) THEN Panic
  ELSE new(T, WrappingSub(self.sector, rhs.sector),
              IF LtU(self.offset, rhs.offset) THEN Lit(0, W32)
              ELSE WrappingSub(self.offset, rhs.offset))

\* impl Sub for Address<S>
sub(T, self, rhs) ==
  IF overflow_checks /\ (SubOverflowsU(self.sector, rhs.sector)
                          \/ SubOverflowsS(self.offset, rhs.offset))
  THEN Panic
  ELSE new(T, WrappingSub(self.sector, rhs.sector),
              WrappingSub(self.offset, rhs.offset))

\* Option<T>
None == [none |-> TRUE]

Some(x) == [some |-> x]

IsSome(r) == "some" \in DOMAIN r

\* Step::forward_checked: count is a usize.
forward_checked(T, start, count) ==
  LET n == CastU(count, W32)
  IN  IF AddOverflowsU(start.sector, n) THEN None
      ELSE LET r == new(T, WrappingAdd(start.sector, n), Lit(0, W32))
           IN  IF IsPanic(r) THEN Panic ELSE Some(r)

\* Step::backward_checked
backward_checked(T, start, count) ==
  LET n == CastU(count, W32)
  IN  IF SubOverflowsU(start.sector, n) THEN None
      ELSE LET r == new(T, WrappingSub(start.sector, n), Lit(0, W32))
           IN  IF IsPanic(r) THEN Panic ELSE Some(r)

\* #[derive(PartialOrd, Ord)] on Address: lexicographic on (sector, offset).
Address_cmp(a, b) ==
  IF LtU(a.sector, b.sector) THEN "Less"
  ELSE IF LtU(b.sector, a.sector) THEN "Greater"
  ELSE IF LtU(a.offset, b.offset) THEN "Less"
  ELSE IF LtU(b.offset, a.offset) THEN "Greater"
  ELSE "Equal"

(***************************************************************************)
(* src/volume/size.rs: Size.                                               *)
(***************************************************************************)
Unbounded == [bounded |-> FALSE]

Bounded(n) == [bounded |-> TRUE, len |-> n]

\* #[derive(PartialEq, Eq)] on Address: field by field.
Address_eq(a, b) == a.sector = b.sector /\ a.offset = b.offset

\* Size::eq as a derived PartialEq would have it: variant by variant.
Size_eq_derived(self, rhs) ==
  IF ~self.bounded /\ ~rhs.bounded THEN TRUE
  ELSE IF ~self.bounded \/ ~rhs.bounded THEN FALSE
  ELSE Address_eq(self.len, rhs.len)

\* impl PartialEq for Size<S>
Size_eq(self, rhs) ==
  IF ~self.bounded THEN FALSE
  ELSE IF ~rhs.bounded THEN FALSE
  ELSE Address_eq(self.len, rhs.len)

\* impl PartialEq<Address<S>> for Size<S>
Size_eq_Address(self, rhs) ==
  IF ~self.bounded THEN FALSE ELSE Address_eq(self.len, rhs)

\* impl PartialOrd for Size<S>: an Option<Ordering>.
Size_partial_cmp(self, rhs) ==
  IF ~self.bounded /\ ~rhs.bounded THEN None
  ELSE IF ~self.bounded THEN Some("Greater")
  ELSE IF ~rhs.bounded THEN Some("Less")
  ELSE Some(Address_cmp(self.len, rhs.len))

\* The provided methods of PartialOrd (<, <=, >, >=), which Size does not
\* override: each matches on partial_cmp.
Size_lt(self, rhs) == Size_partial_cmp(self, rhs) = Some("Less")

Size_le(self, rhs) ==
  Size_partial_cmp(self, rhs) \in {Some("Less"), Some("Equal")}

Size_gt(self, rhs) == Size_partial_cmp(self, rhs) = Some("Greater")

Size_ge(self, rhs) ==
  Size_partial_cmp(self, rhs) \in {Some("Greater"), Some("Equal")}

\* partial_cmp of a Size with an Address comparing the offsets before the
\* sectors.
Size_partial_cmp_Address_offset_first(self, rhs) ==
  IF ~self.bounded THEN "Greater"
  ELSE IF LtU(self.len.offset, rhs.offset) THEN "Less"
  ELSE IF LtU(rhs.offset, self.len.offset) THEN "Greater"
  ELSE IF LtU(self.len.sector, rhs.sector) THEN "Less"
  ELSE IF LtU(rhs.sector, self.len.sector) THEN "Greater"
  ELSE "Equal"

\* impl PartialOrd<Address<S>> for Size<S>: Some(ordering).
Size_partial_cmp_Address(self, rhs) ==
  IF ~self.bounded THEN "Greater" ELSE Address_cmp(self.len, rhs)

\* `size < address`
Size_lt_Address(self, rhs) == Size_partial_cmp_Address(self, rhs) = "Less"

(***************************************************************************)
(* The volume (trait Volume, src/volume/mod.rs, is not among the sources): *)
(* a haystack is its extent.  A record is the byte range it was cast from. *)
(***************************************************************************)
Volume(size) == [size |-> size]

Volume_size(haystack) == haystack.size

\* The range start..end lies within the volume.
InVolume(haystack, start, end) ==
  /\ Address_cmp(start, end) # "Greater"
  /\ ~Size_lt_Address(Volume_size(haystack), end)

\* slice_unchecked(start..end): the view of a range within the volume; of a
\* range that is not within it the behaviour is undefined: a view of
\* whatever lies there, or a fault.
slice_unchecked(haystack, start, end) ==
  IF InVolume(haystack, start, end)
  THEN {[from |-> start, to |-> end]}
  ELSE {[from |-> start, to |-> end], Panic}

\* dynamic_cast::<T>(): the record and the address after it.
dynamic_cast(slice) == <<[from |-> slice.from, to |-> slice.to], slice.to>>

(***************************************************************************)
(* Result<T, Error> and Error::AddressOutOfBounds.                         *)
(***************************************************************************)
Ok(v) == [ok |-> v]

Err(e) == [err |-> e]

IsOk(r) == "ok" \in DOMAIN r

IsErr(r) == "err" \in DOMAIN r

AddressOutOfBounds(sector, offset, size) ==
  [kind |-> "AddressOutOfBounds", sector |-> sector, offset |-> offset,
   size |-> size]

(***************************************************************************)
(* src/sys/block_group.rs and src/sys/inode.rs: the locators.  Each is the *)
(* set of the outcomes the call can have.                                  *)
(***************************************************************************)
\* mem::size_of::<BlockGroupDescriptor>() and mem::size_of::<Inode>()
SizeOfBlockGroupDescriptor == 32

SizeOfInode == 128

find_descriptor(T, haystack, offset) ==
  LET n == from_usize(T, Lit(SizeOfBlockGroupDescriptor, WUsize))
      end == IF IsPanic(n) THEN Panic ELSE add(T, offset, n)
  IN  IF IsPanic(end) THEN {Panic}
      ELSE IF Size_lt_Address(Volume_size(haystack), end)
      THEN {Err(AddressOutOfBounds(end.sector, end.offset,
                                   sector_size(T, end)))}
      ELSE {IF IsPanic(v) THEN Panic ELSE Ok(dynamic_cast(v)) :
              v \in slice_unchecked(haystack, offset, end)}

\* The loop `for i in i..count` of find_descriptor_table, with the records
\* pushed so far.
RECURSIVE find_descriptor_loop(_, _, _, _, _, _)
find_descriptor_loop(T, haystack, offset, count, i, vec) ==
  IF i >= count THEN {Ok(<<vec, offset>>)}
  ELSE
    LET idx == Lit(i, WUsize)
        bytes == WrappingMul(idx, SizeOfBlockGroupDescriptor)
        n == IF overflow_checks
                /\ MulOverflowsU(idx, SizeOfBlockGroupDescriptor)
             THEN Panic ELSE from_usize(T, bytes)
        offset_i == IF IsPanic(n) THEN Panic ELSE add(T, offset, n)
    IN  IF IsPanic(offset_i) THEN {Panic}
        ELSE UNION {IF IsOk(r)
                    THEN find_descriptor_loop(T, haystack, offset, count,
                                              i + 1, Append(vec, r.ok[1]))
                    ELSE {r} :
                      r \in find_descriptor(T, haystack, offset_i)}

\* count: usize, a small integer here.
find_descriptor_table(T, haystack, offset, count) ==
  LET cnt == Lit(count, WUsize)
      bytes == WrappingMul(cnt, SizeOfBlockGroupDescriptor)
      n == IF overflow_checks
              /\ MulOverflowsU(cnt, SizeOfBlockGroupDescriptor)
           THEN Panic ELSE from_usize(T, bytes)
      end == IF IsPanic(n) THEN Panic ELSE add(T, offset, n)
  IN  IF IsPanic(end) THEN {Panic}
      ELSE IF Size_lt_Address(Volume_size(haystack), end)
      THEN {Err(AddressOutOfBounds(end.sector, end.offset,
                                   sector_size(T, end)))}
      ELSE find_descriptor_loop(T, haystack, offset, count, 0, <<>>)

\* find_inode without the check of its size parameter.
find_inode_any_size(T, haystack, offset, size) ==
  LET n == from_usize(T, Lit(size, WUsize))
      end == IF IsPanic(n) THEN Panic ELSE add(T, offset, n)
  IN  IF IsPanic(end) THEN {Panic}
      ELSE IF Size_lt_Address(Volume_size(haystack), end)
      THEN {Err(AddressOutOfBounds(end.sector, end.offset,
                                   sector_size(T, end)))}
      ELSE {IF IsPanic(v) THEN Panic ELSE Ok(dynamic_cast(v)) :
              v \in slice_unchecked(haystack, offset, end)}

\* size: usize, a small integer here.
find_inode(T, haystack, offset, size) ==
  IF size # SizeOfInode THEN {Panic}
  ELSE
    LET n == from_usize(T, Lit(size, WUsize))
        end == IF IsPanic(n) THEN Panic ELSE add(T, offset, n)
    IN  IF IsPanic(end) THEN {Panic}
        ELSE IF Size_lt_Address(Volume_size(haystack), end)
        THEN {Err(AddressOutOfBounds(end.sector, end.offset,
                                     sector_size(T, end)))}
        ELSE {IF IsPanic(v) THEN Panic ELSE Ok(dynamic_cast(v)) :
                v \in slice_unchecked(haystack, offset, end)}

(***************************************************************************)
(* The caller.  A behaviour builds an address with a constructor, applies  *)
(* arithmetic to it (cur holds the address at hand) and hands it to a      *)
(* query (into_index, a locator); call and ret are the last call and what  *)
(* it returned.  A panic ends the behaviour.  Spec is the caller of the    *)
(* address operations of src/sector.rs, SpecLocators the caller of the     *)
(* locators, on the addresses Address::new makes.                          *)
(***************************************************************************)
\* Operations of a behaviour.
MaxSteps == 2

\* Records of a descriptor table: 0..MaxCount, and the 8 of tests::find.
MaxCount == 2

U64Max == [i \in 1..W64 |-> Base - 1]

\* The largest linear index of the tag: sector u32::MAX, offset SIZE - 1.
MaxIndex(T) ==
  into_index(T, Address(U32Max, Lit(OFFSET_MASK(T), W32)))

SectorSamples ==
  {Lit(0, W32), Lit(1, W32), Lit(2, W32), Lit(4, W32),
   WrappingSub(U32Max, Lit(1, W32)), U32Max}

\* i32 offsets, negative and beyond the sector: on Size512 those of
\* tests::arithmetic (-1023, -257, -256, 512, 2048); the record sizes before
\* a sector's end; i32::MAX and i32::MIN.
I32Samples(T) ==
  {Lit(v, W32) :
     v \in {1 - 2 * SIZE(T), -(SIZE(T) \div 2) - 1, -(SIZE(T) \div 2), -1, 0,
            SIZE(T) \div 2, SIZE(T) - SizeOfInode,
            SIZE(T) - 2 * SizeOfBlockGroupDescriptor,
            SIZE(T) - SizeOfBlockGroupDescriptor, SIZE(T) - 1, SIZE(T),
            4 * SIZE(T), 2147483647}}
  \cup {WrappingAdd(Lit(2147483647, W32), Lit(1, W32))}

BlockSamples == {Lit(0, W32), Lit(1, W32), Lit(2, W32), U32Max}

BlockOffsetSamples == {Lit(v, W32) : v \in {-256, -1, 0, 256, 1792}}

LogBlockSizeSamples(T) == {LOG_SIZE(T), 10, 63, 64}

U32OffsetSamples(T) ==
  {Lit(0, W32), Lit(SIZE(T) - 1, W32), Lit(SIZE(T), W32), U32Max}

U64Samples(T) ==
  {Lit(0, W64), Lit(1024, W64), Lit(1792, W64), MaxIndex(T),
   WrappingAdd(MaxIndex(T), Lit(1, W64)), U64Max}

\* The right-hand operands of + and -: normalized addresses.
AddressSamples(T) ==
  {Address(s, Lit(o, W32)) :
     s \in {Lit(0, W32), Lit(1, W32), U32Max},
     o \in {0, SIZE(T) \div 2, SIZE(T) - 1}}

\* usize counts around u32::MAX.
CountSamples ==
  {Lit(0, WUsize), Lit(1, WUsize), CastU(U32Max, WUsize),
   WrappingAdd(CastU(U32Max, WUsize), Lit(1, WUsize)),
   WrappingAdd(CastU(U32Max, WUsize), Lit(2, WUsize))}

\* Volumes of exactly N bytes, size() = Bounded(Address::from(N)), and an
\* unbounded one.
VolumeBytes(T) ==
  {Lit(32, W64), Lit(128, W64), Lit(4096, W64), MaxIndex(T)}

Volumes(T) ==
  {Volume(Unbounded)} \cup {Volume(Bounded(from_u64(T, n))) : n \in VolumeBytes(T)}

TableCounts == 0..MaxCount \cup {8}

InodeSizes == {SizeOfInode - 1, SizeOfInode, SizeOfInode + 1}

\* Extents to compare: the unbounded one and bounded ones.
SizeSamples(T) == {Unbounded} \cup {Bounded(a) : a \in AddressSamples(T)}

Queries ==
  {"into_index", "find_descriptor", "find_descriptor_table", "find_inode",
   "Size_eq", "Size_eq_Address", "Size_partial_cmp",
   "Size_partial_cmp_Address"}

Running == ~IsPanic(ret) /\ call.op \notin Queries /\ steps < MaxSteps

\* The call returned r, an address or a panic.
Returns(c, r) ==
  /\ call' = c
  /\ ret' = r
  /\ cur' = IF IsPanic(r) THEN cur ELSE r
  /\ steps' = steps + 1
  /\ UNCHANGED <<overflow_checks, S>>

\* The call returned r and leaves the address at hand as it is.
Answers(c, r) ==
  /\ call' = c
  /\ ret' = r
  /\ steps' = steps + 1
  /\ UNCHANGED <<overflow_checks, S, cur>>

Init ==
  /\ overflow_checks \in BOOLEAN
  /\ S \in SectorSize
  /\ cur = AddressDefault
  /\ call = [op |-> "default"]
  /\ ret = AddressDefault
  /\ steps = 0

DoNew ==
  /\ Running /\ steps = 0
  /\ \E sector \in SectorSamples, offset \in I32Samples(S) :
       Returns([op |-> "new", sector |-> sector, offset |-> offset],
               new(S, sector, offset))

DoWithBlockSize ==
  /\ Running /\ steps = 0
  /\ \E block \in BlockSamples, offset \in BlockOffsetSamples,
        log_block_size \in LogBlockSizeSamples(S) :
       Returns([op |-> "with_block_size", block |-> block,
                offset |-> offset, log_block_size |-> log_block_size],
               with_block_size(S, block, offset, log_block_size))

DoNewUnchecked ==
  /\ Running /\ steps = 0
  /\ \E sector \in SectorSamples, offset \in U32OffsetSamples(S) :
       Returns([op |-> "new_unchecked", sector |-> sector,
                offset |-> offset],
               new_unchecked(S, sector, offset))

DoFromU64 ==
  /\ Running /\ steps = 0
  /\ \E idx \in U64Samples(S) :
       Returns([op |-> "from_u64", idx |-> idx], from_u64(S, idx))

DoFromUsize ==
  /\ Running /\ steps = 0
  /\ \E idx \in U64Samples(S) :
       Returns([op |-> "from_usize", idx |-> idx], from_usize(S, idx))

DoAdd ==
  /\ Running
  /\ \E rhs \in AddressSamples(S) :
       Returns([op |-> "add", self |-> cur, rhs |-> rhs], add(S, cur, rhs))

DoSub ==
  /\ Running
  /\ \E rhs \in AddressSamples(S) :
       Returns([op |-> "sub", self |-> cur, rhs |-> rhs], sub(S, cur, rhs))

\* None leaves the address at hand as it is.
DoForwardChecked ==
  /\ Running
  /\ \E count \in CountSamples :
       LET r == forward_checked(S, cur, count)
           c == [op |-> "forward_checked", start |-> cur, count |-> count]
       IN  IF IsSome(r) THEN Returns(c, r.some) /\ TRUE
           ELSE Answers(c, r)

DoBackwardChecked ==
  /\ Running
  /\ \E count \in CountSamples :
       LET r == backward_checked(S, cur, count)
           c == [op |-> "backward_checked", start |-> cur, count |-> count]
       IN  IF IsSome(r) THEN Returns(c, r.some) /\ TRUE
           ELSE Answers(c, r)

DoIntoIndex ==
  /\ Running
  /\ Answers([op |-> "into_index", self |-> cur],
             [index |-> into_index(S, cur)])

DoFindDescriptor ==
  /\ Running
  /\ \E haystack \in Volumes(S) :
       \E r \in find_descriptor(S, haystack, cur) :
         Answers([op |-> "find_descriptor", haystack |-> haystack,
                  offset |-> cur], r)

DoFindDescriptorTable ==
  /\ Running
  /\ \E haystack \in Volumes(S), count \in TableCounts :
       \E r \in find_descriptor_table(S, haystack, cur, count) :
         Answers([op |-> "find_descriptor_table", haystack |-> haystack,
                  offset |-> cur, count |-> count], r)

DoFindInode ==
  /\ Running
  /\ \E haystack \in Volumes(S), size \in InodeSizes :
       \E r \in find_inode(S, haystack, cur, size) :
         Answers([op |-> "find_inode", haystack |-> haystack,
                  offset |-> cur, size |-> size], r)

Next ==
  \/ DoNew
  \/ DoWithBlockSize
  \/ DoNewUnchecked
  \/ DoFromU64
  \/ DoFromUsize
  \/ DoAdd
  \/ DoSub
  \/ DoForwardChecked
  \/ DoBackwardChecked
  \/ DoIntoIndex

Spec == Init /\ [][Next]_vars

NextLocators ==
  \/ DoNew
  \/ DoFindDescriptor
  \/ DoFindDescriptorTable
  \/ DoFindInode

SpecLocators == Init /\ [][NextLocators]_vars

\* size == other, between two extents.
DoSizeEq ==
  /\ Running /\ steps = 0
  /\ \E self \in SizeSamples(S), rhs \in SizeSamples(S) :
       Answers([op |-> "Size_eq", self |-> self, rhs |-> rhs],
               [eq |-> Size_eq(self, rhs)])

\* size == address, with the address at hand.
DoSizeEqAddress ==
  /\ Running
  /\ \E self \in SizeSamples(S) :
       Answers([op |-> "Size_eq_Address", self |-> self, rhs |-> cur],
               [eq |-> Size_eq_Address(self, cur)])

\* partial_cmp and <, <=, >, >= between two extents.
DoSizePartialCmp ==
  /\ Running /\ steps = 0
  /\ \E self \in SizeSamples(S), rhs \in SizeSamples(S) :
       Answers([op |-> "Size_partial_cmp", self |-> self, rhs |-> rhs],
               [partial_cmp |-> Size_partial_cmp(self, rhs),
                lt |-> Size_lt(self, rhs), le |-> Size_le(self, rhs),
                gt |-> Size_gt(self, rhs), ge |-> Size_ge(self, rhs)])

\* partial_cmp and the `size < end` of the locators, with the address at
\* hand.
DoSizePartialCmpAddress ==
  /\ Running
  /\ \E self \in SizeSamples(S) :
       Answers([op |-> "Size_partial_cmp_Address", self |-> self,
                rhs |-> cur],
               [ordering |-> Size_partial_cmp_Address(self, cur),
                lt |-> Size_lt_Address(self, cur)])

\* The caller of the comparisons of Size and of the locators that rely on
\* them.
NextSize ==
  \/ DoNew
  \/ DoSizeEq
  \/ DoSizeEqAddress
  \/ DoSizePartialCmp
  \/ DoSizePartialCmpAddress
  \/ DoFindDescriptor
  \/ DoFindDescriptorTable
  \/ DoFindInode

SpecSize == Init /\ [][NextSize]_vars

(***************************************************************************)
(* Exact values: WideLimbs limbs, two's complement, never wrapping for the *)
(* operands at hand.                                                       *)
(***************************************************************************)
WideU(x) == CastU(x, WideLimbs)

WideS(x) == CastS(x, WideLimbs)

WideLit(v) == Lit(v, WideLimbs)

LeW(x, y) == x = y \/ LtS(x, y)

IsAddress(r) == DOMAIN r = {"sector", "offset"}

\* A.into_index(), exactly.
Index(T, a) == WideU(into_index(T, a))

\* The address of linear index i, for 0 <= i <= MaxIndex(T).
AddressOf(T, i) ==
  Address(CastU(ShrU(i, LOG_SIZE(T)), W32),
          CastU(AndMask(i, OFFSET_MASK(T)), W32))

Representable(T, i) == ~IsNeg(i) /\ LeW(i, WideU(MaxIndex(T)))

\* The volume of the call is bounded, of exactly N bytes.
VolumeN(T, haystack) == Index(T, haystack.size.len)

(***************************************************************************)
(* C1.  A single-record locator (find_descriptor, R = 32; find_inode with  *)
(* size = R = 128) on a bounded volume of N bytes succeeds iff             *)
(* A.into_index() + R <= N, and otherwise returns AddressOutOfBounds with  *)
(* the sector, offset and sector size of the true end address A + R.       *)
(***************************************************************************)
C1_Call ==
  \/ call.op = "find_descriptor" /\ call.haystack.size.bounded
  \/ /\ call.op = "find_inode"
     /\ call.haystack.size.bounded
     /\ call.size = SizeOfInode

C1_RecordSize ==
  IF call.op = "find_descriptor" THEN SizeOfBlockGroupDescriptor
  ELSE SizeOfInode

C1_End == WrappingAdd(Index(S, call.offset), WideLit(C1_RecordSize))

C1_LocatorBoundsCheck ==
  C1_Call =>
    IF LeW(C1_End, VolumeN(S, call.haystack))
    THEN IsOk(ret)
    ELSE /\ IsErr(ret)
         /\ ret.err.kind = "AddressOutOfBounds"
         /\ WideU(ret.err.sector) = ShrU(C1_End, LOG_SIZE(S))
         /\ WideU(ret.err.offset) = AndMask(C1_End, OFFSET_MASK(S))
         /\ ret.err.size = SIZE(S)

(***************************************************************************)
(* C2.  find_descriptor_table(volume, start, K) returns AddressOutOfBounds *)
(* iff the end of the last record, start + K*32, exceeds the volume's      *)
(* extent; otherwise it returns exactly K descriptors, the i-th read from  *)
(* start + i*32 in ascending i: no per-record call fails once the check of *)
(* the whole table has passed.                                             *)
(***************************************************************************)
C2_TableEnd ==
  WrappingAdd(Index(S, call.offset),
              WideLit(call.count * SizeOfBlockGroupDescriptor))

C2_Exceeds ==
  /\ call.haystack.size.bounded
  /\ ~LeW(C2_TableEnd, VolumeN(S, call.haystack))

C2_TableAtomicity ==
  call.op = "find_descriptor_table" =>
    IF C2_Exceeds
    THEN IsErr(ret) /\ ret.err.kind = "AddressOutOfBounds"
    ELSE /\ IsOk(ret)
         /\ Len(ret.ok[1]) = call.count
         /\ \A i \in 1..call.count :
              Index(S, ret.ok[1][i].from)
                = WrappingAdd(Index(S, call.offset),
                              WideLit((i - 1) * SizeOfBlockGroupDescriptor))

(***************************************************************************)
(* C3.  Every Address a constructor or an operation produces, in any       *)
(* sequence and for any inputs, has offset() < S::SIZE.                    *)
(***************************************************************************)
Normalized(T, a) == LtU(CastU(a.offset, WUsize), Lit(SIZE(T), WUsize))

C3_Normalization ==
  /\ Normalized(S, cur)
  /\ IsAddress(ret) => Normalized(S, ret)

\* A subtraction that borrows (a negative offset handed to new), applied to
\* the address a constructor made.
C3_Witness ==
  /\ call.op = "sub"
  /\ steps = 2
  /\ Address_cmp(call.self, call.rhs) = "Greater"
  /\ LtU(call.self.offset, call.rhs.offset)
  /\ IsAddress(ret)
  /\ ret = cur

(***************************************************************************)
(* C4.  with_block_size(block, offset, log_block_size) with                *)
(* I = block * 2^log_block_size + offset and 0 <= I < 2^(32 + LOG_SIZE) is *)
(* the address with sector I >> LOG_SIZE, offset I & OFFSET_MASK and       *)
(* into_index() = I; new(sector, offset) is the case                       *)
(* log_block_size = LOG_SIZE.                                              *)
(***************************************************************************)
C4_LinearIndex ==
  IF call.op = "new"
  THEN WrappingAdd(Shl(WideU(call.sector), LOG_SIZE(S)), WideS(call.offset))
  ELSE WrappingAdd(Shl(WideU(call.block), call.log_block_size),
                   WideS(call.offset))

C4_IsLinearAddress ==
  /\ IsAddress(ret)
  /\ ret = AddressOf(S, C4_LinearIndex)
  /\ Index(S, ret) = C4_LinearIndex

\* As claimed: for every log_block_size.
C4_Construction ==
  (call.op \in {"new", "with_block_size"} /\ Representable(S, C4_LinearIndex))
    => C4_IsLinearAddress

\* As amended: for log_block_size < 64, the width of the i64 that is
\* shifted.
C4_ConstructionBelow64 ==
  /\ (call.op = "new" /\ Representable(S, C4_LinearIndex))
       => C4_IsLinearAddress
  /\ (/\ call.op = "with_block_size"
      /\ call.log_block_size < I64Bits
      /\ Representable(S, C4_LinearIndex))
       => C4_IsLinearAddress
  \* tests::arithmetic, on Size512
  /\ (call.op = "new" /\ S = "Size512") =>
       /\ (call.sector = Lit(0, W32) /\ call.offset = Lit(512, W32))
            => ret = Address(Lit(1, W32), Lit(0, W32))
       /\ (call.sector = Lit(2, W32) /\ call.offset = Lit(-256, W32))
            => ret = Address(Lit(1, W32), Lit(256, W32))
       /\ (call.sector = Lit(2, W32) /\ call.offset = Lit(-257, W32))
            => ret = Address(Lit(1, W32), Lit(255, W32))
       /\ (call.sector = Lit(2, W32) /\ call.offset = Lit(-1023, W32))
            => ret = Address(Lit(0, W32), Lit(1, W32))
  \* tests::conv, on Size512
  /\ (/\ call.op = "with_block_size" /\ S = "Size512"
      /\ call.block = Lit(1, W32) /\ call.offset = Lit(-256, W32)
      /\ call.log_block_size = 10)
       => IsAddress(ret) /\ into_index(S, ret) = Lit(1024 - 256, W64)

\* A block of 1024 bytes and a negative offset, on 512-byte sectors.
C4_Witness ==
  /\ call.op = "with_block_size"
  /\ S = "Size512"
  /\ call.block = Lit(1, W32)
  /\ call.offset = Lit(-256, W32)
  /\ call.log_block_size = 10
  /\ ret = Address(Lit(1, W32), Lit(256, W32))

(***************************************************************************)
(* C5.  a + b is the address whose linear index is                         *)
(* a.into_index() + b.into_index(), or, when that sum is not representable *)
(* (>= 2^(32 + LOG_SIZE)), there is no result; never a wrapped-around      *)
(* smaller address.                                                        *)
(***************************************************************************)
C5_Sum == WrappingAdd(Index(S, call.self), Index(S, call.rhs))

C5_AddNeverWraps ==
  call.op = "add" =>
    IF Representable(S, C5_Sum)
    THEN IsAddress(ret) /\ Index(S, ret) = C5_Sum
    ELSE IsPanic(ret)

(***************************************************************************)
(* C6.  For a >= b, (a - b).into_index() = a.into_index() - b.into_index() *)
(* and the offset of the result is in [0, S::SIZE), also when              *)
(* a.offset < b.offset.                                                    *)
(***************************************************************************)
C6_SubBorrows ==
  /\ (call.op = "sub" /\ Address_cmp(call.self, call.rhs) # "Less") =>
       /\ IsAddress(ret)
       /\ Index(S, ret) = WrappingSub(Index(S, call.self), Index(S, call.rhs))
       /\ Normalized(S, ret)
  \* Size512: (2,0) - (0,256) = (1,256); tests::arithmetic:
  \* new(0,2048) - new(0,256) = new(3,256), of linear index 1792
  /\ (/\ call.op = "sub" /\ S = "Size512"
      /\ call.rhs = Address(Lit(0, W32), Lit(256, W32))) =>
       /\ call.self = Address(Lit(2, W32), Lit(0, W32))
            => ret = Address(Lit(1, W32), Lit(256, W32))
       /\ call.self = Address(Lit(4, W32), Lit(0, W32))
            => /\ ret = Address(Lit(3, W32), Lit(256, W32))
               /\ into_index(S, ret) = Lit(1792, W64)

\* new(0, 2048) - new(0, 256) on Size512: the offsets borrow.
C6_Witness ==
  /\ call.op = "sub"
  /\ S = "Size512"
  /\ call.self = Address(Lit(4, W32), Lit(0, W32))
  /\ call.rhs = Address(Lit(0, W32), Lit(256, W32))
  /\ ret = Address(Lit(3, W32), Lit(256, W32))

(***************************************************************************)
(* C7.  For every idx < 2^(32 + LOG_SIZE), from(idx).into_index() = idx,   *)
(* for From<u64> and for From<usize>.                                      *)
(***************************************************************************)
C7_RoundTrip ==
  (call.op \in {"from_u64", "from_usize"} /\ LeU(call.idx, MaxIndex(S))) =>
    IsAddress(ret) /\ into_index(S, ret) = call.idx

\* The largest index of the tag, through From<u64>.
C7_Witness ==
  /\ call.op = "from_u64"
  /\ call.idx = MaxIndex(S)
  /\ ret = Address(U32Max, Lit(OFFSET_MASK(S), W32))

(***************************************************************************)
(* C8.  Every successful locator returns the end address of the range it   *)
(* covered: start + record_size for find_descriptor and find_inode,        *)
(* start + N*32 for find_descriptor_table with count N.                    *)
(***************************************************************************)
C8_Bytes ==
  CASE call.op = "find_descriptor" -> SizeOfBlockGroupDescriptor
    [] call.op = "find_inode" -> call.size
    [] call.op = "find_descriptor_table" ->
         call.count * SizeOfBlockGroupDescriptor

C8_ReturnsEnd ==
  (call.op \in {"find_descriptor", "find_inode", "find_descriptor_table"}
   /\ IsOk(ret)) =>
    ret.ok[2] = add(S, call.offset, from_usize(S, Lit(C8_Bytes, WUsize)))

(***************************************************************************)
(* C9.  forward_checked(a, N) is Some(sector a.sector + N, offset 0) when  *)
(* a.sector + N <= u32::MAX and None otherwise; backward_checked(a, N) is  *)
(* Some(sector a.sector - N, offset 0) when N <= a.sector and None         *)
(* otherwise; for every usize N.                                           *)
(***************************************************************************)
C9_Forward == WrappingAdd(WideU(call.start.sector), WideU(call.count))

C9_Backward == WrappingSub(WideU(call.start.sector), WideU(call.count))

C9_StepNeverWraps ==
  /\ call.op = "forward_checked" =>
       IF LeW(C9_Forward, WideU(U32Max))
       THEN /\ IsAddress(ret)
            /\ WideU(ret.sector) = C9_Forward
            /\ ret.offset = Lit(0, W32)
       ELSE ret = None
  /\ call.op = "backward_checked" =>
       IF ~IsNeg(C9_Backward)
       THEN /\ IsAddress(ret)
            /\ WideU(ret.sector) = C9_Backward
            /\ ret.offset = Lit(0, W32)
       ELSE ret = None

(***************************************************************************)
(* C10.  find_inode with a size other than 128 is rejected before the      *)
(* volume is queried, sliced or cast; no Inode is produced.                *)
(***************************************************************************)
\* As claimed: the rejection is a returned error of the
\* UnsupportedRecordSize kind.
C10_RejectedByError ==
  (call.op = "find_inode" /\ call.size # SizeOfInode) =>
    IsErr(ret) /\ ret.err.kind = "UnsupportedRecordSize"

\* As amended: the rejection is a panic (unimplemented!), whatever the
\* volume and the start address: the call returns nothing.
C10_RejectedByPanic ==
  (call.op = "find_inode" /\ call.size # SizeOfInode) =>
    /\ IsPanic(ret)
    /\ \A haystack \in Volumes(S) :
         find_inode(S, haystack, call.offset, call.size) = {Panic}

C10_Witness ==
  /\ call.op = "find_inode"
  /\ call.size = SizeOfInode + 1
  /\ ~call.haystack.size.bounded
  /\ IsPanic(ret)

(***************************************************************************)
(* C11.  Size::Unbounded is never equal to anything: Unbounded == x and    *)
(* x == Unbounded are false for every Size x, Unbounded included, and      *)
(* Unbounded == a is false for every Address a; Unbounded compared with    *)
(* Unbounded is unordered, none of <, <=, >, >= holds; two Bounded sizes   *)
(* are equal exactly when their addresses are equal.                       *)
(***************************************************************************)
C11_UnboundedNeverEqual ==
  /\ call.op = "Size_eq" =>
       /\ ~call.self.bounded \/ ~call.rhs.bounded => ret.eq = FALSE
       /\ call.self.bounded /\ call.rhs.bounded =>
            (ret.eq <=> call.self.len = call.rhs.len)
  /\ call.op = "Size_eq_Address" /\ ~call.self.bounded => ret.eq = FALSE
  /\ call.op = "Size_partial_cmp" /\ ~call.self.bounded
       /\ ~call.rhs.bounded =>
       /\ ret.partial_cmp = None
       /\ ~ret.lt /\ ~ret.le /\ ~ret.gt /\ ~ret.ge

\* Unbounded == Unbounded was evaluated and is false.
C11_Witness ==
  /\ call.op = "Size_eq"
  /\ ~call.self.bounded /\ ~call.rhs.bounded
  /\ ret.eq = FALSE

(***************************************************************************)
(* C12.  The comparison of a Size with an Address agrees with the order of *)
(* the linear indices: Unbounded < end is false for every Address end      *)
(* (Unbounded is greater than every Address and every Bounded size), and   *)
(* Bounded(n) < end holds iff n.into_index() < end.into_index(); so no     *)
(* locator call on an Unbounded volume returns AddressOutOfBounds.         *)
(***************************************************************************)
C12_Locators == {"find_descriptor", "find_descriptor_table", "find_inode"}

C12_SizeAddressOrder ==
  /\ call.op = "Size_partial_cmp_Address" =>
       /\ ~call.self.bounded => ret.ordering = "Greater" /\ ~ret.lt
       /\ call.self.bounded =>
            (ret.lt <=> LtS(Index(S, call.self.len), Index(S, call.rhs)))
  /\ call.op = "Size_partial_cmp" /\ ~call.self.bounded
       /\ call.rhs.bounded =>
       /\ ret.partial_cmp = Some("Greater")
       /\ ret.gt /\ ~ret.lt
  /\ call.op \in C12_Locators /\ ~call.haystack.size.bounded =>
       ~(IsErr(ret) /\ ret.err.kind = "AddressOutOfBounds")

\* A bounded extent below the end address although its offset is the
\* greater one: the sectors decide, as the linear indices do.
C12_Witness ==
  /\ call.op = "Size_partial_cmp_Address"
  /\ call.self.bounded
  /\ LtU(call.self.len.sector, call.rhs.sector)
  /\ LtU(call.rhs.offset, call.self.len.offset)
  /\ LtS(Index(S, call.self.len), Index(S, call.rhs))
  /\ ret.lt

====
